---- MODULE Spec2Model ----
(***************************************************************************)
(* Parser-combinator engine: cursors (Stream), errors, the shared catcher  *)
(* and the combinators of the Parser trait, as a state machine.            *)
(*                                                                         *)
(* A character is its code point (an integer); '\0' is 0.  A cursor over   *)
(* the source text is its residual length (Stream::rest_len): the text is  *)
(* shared by every cursor, so the residual length determines the cursor.   *)
(* All characters of the model are one byte wide, so byte lengths and      *)
(* character counts coincide.                                              *)
(***************************************************************************)
EXTENDS Integers, Sequences, FiniteSets, TLC

\* ---- bounds of the model ------------------------------------------------
MaxLen == 2          \* longest source text
MaxLit == 2          \* longest string literal tried by ParseStr
MaxDepth == 1        \* deepest nesting of open closure-bodied rules
MaxIter == 4         \* most values of one many loop that are kept
MaxIdLen == 3        \* longest source text given to the idents grammar
NumUnits == 6        \* parsing units 1..NumUnits are operands of the calls

\* the characters source texts and literals are made of: '\0' and 'a'
Chars == {0, 97}

Texts == UNION {[1..n -> Chars] : n \in 0..MaxLen}
Literals == UNION {[1..n -> Chars] : n \in 0..MaxLit}

VARIABLES
    text,       \* Context::text, the source text of this parse
    catcher,    \* Context::catcher: [chars, messages, is_started]
    saved,      \* the is_started flags saved by the rules now running
    pc,         \* "idle", "many" while a many loop is running, then "done"
    loop,       \* the many loop's parser, cursor and collected values
    call,       \* the call made last: operation, operands, cursor, catcher before
    res         \* its PResult

vars == <<text, catcher, saved, pc, loop, call, res>>

\* ---- parsers.rs: the end-of-input sentinel -------------------------------
EOF == 0

\* ---- error.rs ------------------------------------------------------------
ExpChar(c) == <<"Char", c>>
ExpStr(s) == <<"Str", s>>
ExpOneOf(s) == <<"OneOf", s>>
ExpRangeInclusive(lo, hi) == <<"RangeInclusive", lo, hi>>
ExpRule(r) == <<"Rule", r>>
UnexpectedEOF == <<"UnexpectedEOF", 0>>
\* format!("unexpected {:?}", p2): the text names the parser p2
TextUnexpected(p) == <<"Text", "unexpected", p>>

\* Error::new
ErrorNew(stream, message) == [stream |-> stream, messages |-> {message}]

\* Error::or that keeps self alone when the positions are equal
ErrorOrDropsTie(self, error) ==
    IF self.stream <= error.stream THEN self ELSE error

\* Error::or
ErrorOr(self, error) ==
    IF self.stream = error.stream
    THEN [stream |-> self.stream, messages |-> self.messages \cup error.messages]
    ELSE IF self.stream < error.stream THEN self ELSE error

\* ---- context.rs ----------------------------------------------------------
\* Catcher::new
CatcherNew(t) == [chars |-> Len(t), messages |-> {}, is_started |-> TRUE]

\* Catcher::set_started: the new catcher and the old flag
SetStartedReturnsNew(c, is_started) ==
    [catcher |-> [c EXCEPT !.is_started = is_started], old |-> is_started]

SetStarted(c, is_started) ==
    [catcher |-> [c EXCEPT !.is_started = is_started], old |-> c.is_started]

\* Catcher::pop_error: takes the messages, swaps the position for the start
PopError(c, start_chars) ==
    [catcher |-> [c EXCEPT !.chars = start_chars, !.messages = {}],
     chars |-> c.chars, messages |-> c.messages]

\* Catcher::set_error that stores the messages and not the position
SetErrorMessagesOnly(c, err) == [c EXCEPT !.messages = err.messages]

\* Catcher::set_error
SetError(c, err) == [c EXCEPT !.messages = err.messages, !.chars = err.stream]

\* ---- stream.rs -----------------------------------------------------------
\* Stream::next: the cursor past the next character, and the character
StreamNext(stream) ==
    IF stream > 0
    THEN [stream |-> stream - 1, ch |-> text[Len(text) - stream + 1]]
    ELSE [stream |-> stream, ch |-> 0]

\* Stream::catch: the error returned and the catcher left behind.
\* w is the world a call runs in: the catcher, and the log of parse calls
\* made so far (calls), which is an observation, not program state.
Catch(stream, error, w) ==
    IF ~w.catcher.is_started
    THEN [error |-> error, w |-> w]
    ELSE LET popped == PopError(w.catcher, Len(text))
             err == ErrorOr(error, [stream |-> popped.chars, messages |-> popped.messages])
         IN [error |-> err, w |-> [w EXCEPT !.catcher = SetError(popped.catcher, err)]]

NoError == [stream |-> 0, messages |-> {}]

\* Stream::ok
StreamOk(stream, result, w) ==
    [ok |-> TRUE, stream |-> stream, value |-> result, error |-> NoError, w |-> w]

Failure(error, w) ==
    [ok |-> FALSE, stream |-> 0, value |-> <<>>, error |-> error, w |-> w]

\* Stream::err
StreamErr(stream, message, w) ==
    LET c == Catch(stream, ErrorNew(stream, message), w)
    IN Failure(c.error, c.w)

\* ---- parsers.rs: primitive matchers --------------------------------------
\* impl Parser for char
ParseChar(c, stream, w) ==
    LET n == StreamNext(stream)
    IN IF n.ch = c THEN StreamOk(n.stream, n.ch, w)
       ELSE StreamErr(stream, ExpChar(c), w)

\* the loop of the literal that reports a mismatch where it met it, not at start
RECURSIVE StrLoopErrAtCursor(_, _, _, _, _)
StrLoopErrAtCursor(lit, i, start, stream, w) ==
    IF i > Len(lit) THEN StreamOk(stream, lit, w)
    ELSE LET n == StreamNext(stream)
         IN IF lit[i] # n.ch THEN StreamErr(stream, ExpStr(lit), w)
            ELSE StrLoopErrAtCursor(lit, i + 1, start, n.stream, w)

\* impl Parser for &'static str: the loop over the literal from its i-th character
RECURSIVE StrLoop(_, _, _, _, _)
StrLoop(lit, i, start, stream, w) ==
    IF i > Len(lit) THEN StreamOk(stream, lit, w)
    ELSE LET n == StreamNext(stream)
         IN IF lit[i] # n.ch THEN StreamErr(start, ExpStr(lit), w)
            ELSE StrLoop(lit, i + 1, start, n.stream, w)

ParseStr(lit, stream, w) == StrLoop(lit, 1, stream, stream, w)

\* impl Parser for RangeInclusive<char>
ParseRangeInclusive(lo, hi, stream, w) ==
    LET n == StreamNext(stream)
    IN IF lo <= n.ch /\ n.ch <= hi THEN StreamOk(n.stream, n.ch, w)
       ELSE StreamErr(stream, ExpRangeInclusive(lo, hi), w)

\* impl Parser for OneOf
ParseOneOf(chars, stream, w) ==
    LET n == StreamNext(stream)
    IN IF \E i \in 1..Len(chars) : chars[i] = n.ch THEN StreamOk(n.stream, n.ch, w)
       ELSE StreamErr(stream, ExpOneOf(chars), w)

\* impl Parser for Any
ParseAny(stream, w) ==
    LET n == StreamNext(stream)
    IN IF n.ch # EOF THEN StreamOk(n.stream, n.ch, w)
       ELSE StreamErr(stream, UnexpectedEOF, w)

\* ---- parser.rs: the combinators -----------------------------------------
\* The parsing units of the model.  Unit p is Gram[p]: a primitive, or a
\* combinator over other units.  Units 19, 21 and 24 are ident, ws and the
\* idents grammar of common.rs.
N(op, a, b, cs, name) == [op |-> op, a |-> a, b |-> b, cs |-> cs, name |-> name]

Gram == <<
    N("char", 0, 0, <<97>>, ""),                 \*  1  'a'
    N("char", 0, 0, <<EOF>>, ""),                \*  2  EOF
    N("opt", 1, 0, <<>>, ""),                    \*  3  'a'.opt()
    N("rule", 1, 0, <<>>, "A"),                  \*  4  'a'.rule("A")
    N("seq", 1, 4, <<>>, ""),                    \*  5  'a'.seq('a'.rule("A"))
    N("or", 1, 25, <<>>, ""),                    \*  6  'a'.or(Any)
    N("one_of", 0, 0, <<32, 10, 13, 9>>, ""),    \*  7  one_of(" \n\r\t")
    N("many", 7, 0, <<>>, ""),                   \*  8  one_of(" \n\r\t").many()
    N("rangei", 0, 0, <<48, 57>>, ""),           \*  9  '0'..='9'
    N("rangei", 0, 0, <<97, 122>>, ""),          \* 10  'a'..='z'
    N("rangei", 0, 0, <<65, 90>>, ""),           \* 11  'A'..='Z'
    N("or", 10, 11, <<>>, ""),                   \* 12
    N("char", 0, 0, <<95>>, ""),                 \* 13  '_'
    N("or", 12, 13, <<>>, ""),                   \* 14  letter
    N("or", 14, 9, <<>>, ""),                    \* 15  letter_or_digit
    N("many", 15, 0, <<>>, ""),                  \* 16
    N("prepend", 14, 16, <<>>, ""),              \* 17
    N("as_string", 17, 0, <<>>, ""),             \* 18
    N("rule", 18, 0, <<>>, "ident"),             \* 19  ident
    N("rule", 8, 0, <<>>, "ws"),                 \* 20  the spaces of ws
    N("map_unit", 20, 0, <<>>, ""),              \* 21  ws
    N("ignore_prev", 21, 19, <<>>, ""),          \* 22
    N("many", 22, 0, <<>>, ""),                  \* 23
    N("ignore_this", 23, 2, <<>>, ""),           \* 24  idents
    N("any", 0, 0, <<>>, "")                     \* 25  Any
>>

Ident == 19
Ws == 21
Idents == 24

NumGram == Len(Gram)
Units == 1..NumUnits

RECURSIVE Parse(_, _, _)

\* Parser::or that runs the second unit where the first one failed
ParseOrNoBacktrack(p1, p2, stream, w) ==
    LET r1 == Parse(p1, stream, w)
    IN IF r1.ok THEN r1
       ELSE LET r2 == Parse(p2, r1.error.stream, r1.w)
            IN IF r2.ok THEN r2
               ELSE LET c == Catch(r1.error.stream, ErrorOr(r1.error, r2.error), r2.w)
                    IN Failure(c.error, c.w)

\* Parser::or
ParseOr(p1, p2, stream, w) ==
    LET r1 == Parse(p1, stream, w)
    IN IF r1.ok THEN r1
       ELSE LET r2 == Parse(p2, stream, r1.w)
            IN IF r2.ok THEN r2
               ELSE LET c == Catch(r1.error.stream, ErrorOr(r1.error, r2.error), r2.w)
                    IN Failure(c.error, c.w)

\* Parser::seq
ParseSeq(p1, p2, stream, w) ==
    LET r1 == Parse(p1, stream, w)
    IN IF ~r1.ok THEN r1
       ELSE LET r2 == Parse(p2, r1.stream, r1.w)
            IN IF ~r2.ok THEN r2
               ELSE StreamOk(r2.stream, <<r1.value, r2.value>>, r2.w)

\* Parser::and_not that runs the second unit where the first one ended
ParseAndNotAtEnd(p1, p2, stream, w) ==
    LET r1 == Parse(p1, stream, w)
    IN IF ~r1.ok THEN r1
       ELSE LET r2 == Parse(p2, r1.stream, r1.w)
            IN IF r2.ok THEN StreamErr(stream, TextUnexpected(p2), r2.w)
               ELSE StreamOk(r1.stream, r1.value, r2.w)

\* Parser::and_not
ParseAndNot(p1, p2, stream, w) ==
    LET r1 == Parse(p1, stream, w)
    IN IF ~r1.ok THEN r1
       ELSE LET r2 == Parse(p2, stream, r1.w)
            IN IF r2.ok THEN StreamErr(stream, TextUnexpected(p2), r2.w)
               ELSE StreamOk(r1.stream, r1.value, r2.w)

\* Parser::prepend
ParsePrepend(p1, p2, stream, w) ==
    LET r1 == Parse(p1, stream, w)
    IN IF ~r1.ok THEN r1
       ELSE LET r2 == Parse(p2, r1.stream, r1.w)
            IN IF ~r2.ok THEN r2
               ELSE StreamOk(r2.stream, <<r1.value>> \o r2.value, r2.w)

\* Parser::opt that gives up when the failure lies past its own cursor
ParseOptCommitted(p, stream, w) ==
    LET r == Parse(p, stream, w)
    IN IF r.ok THEN StreamOk(r.stream, <<r.value>>, r.w)
       ELSE IF r.error.stream < stream THEN r
       ELSE StreamOk(stream, <<>>, Catch(stream, r.error, r.w).w)

\* Parser::opt: None is <<>>, Some(r) is <<r>>
ParseOpt(p, stream, w) ==
    LET r == Parse(p, stream, w)
    IN IF r.ok THEN StreamOk(r.stream, <<r.value>>, r.w)
       ELSE StreamOk(stream, <<>>, Catch(stream, r.error, r.w).w)

\* Parser::many, one turn of its loop: brk says that the loop is left
ManyIter(p, stream, result, w) ==
    LET r == Parse(p, stream, w)
    IN IF r.ok
       THEN [brk |-> FALSE, stream |-> r.stream, result |-> Append(result, r.value), w |-> r.w]
       ELSE [brk |-> TRUE, stream |-> stream, result |-> result,
             w |-> Catch(stream, r.error, r.w).w]

\* Parser::many, the loop and the return after it
RECURSIVE ManyLoop(_, _, _, _)
ManyLoop(p, stream, result, w) ==
    LET it == ManyIter(p, stream, result, w)
    IN IF it.brk THEN StreamOk(it.stream, it.result, it.w)
       ELSE ManyLoop(p, it.stream, it.result, it.w)

ParseMany(p, stream, w) == ManyLoop(p, stream, <<>>, w)

\* Parser::map with a function to (), as ws maps its spaces
ParseMapUnit(p, stream, w) ==
    LET r == Parse(p, stream, w)
    IN IF r.ok THEN StreamOk(r.stream, <<>>, r.w) ELSE r

\* Parser::as_string: String::from_iter over the characters; a String is
\* the sequence of its characters
ParseAsString(p, stream, w) ==
    LET r == Parse(p, stream, w)
    IN IF r.ok THEN StreamOk(r.stream, [i \in 1..Len(r.value) |-> r.value[i]], r.w) ELSE r

\* Parser::ignore_prev
ParseIgnorePrev(p1, p2, stream, w) ==
    LET r1 == Parse(p1, stream, w)
    IN IF ~r1.ok THEN r1
       ELSE LET r2 == Parse(p2, r1.stream, r1.w)
            IN IF ~r2.ok THEN r2 ELSE StreamOk(r2.stream, r2.value, r2.w)

\* Parser::ignore_this
ParseIgnoreThis(p1, p2, stream, w) ==
    LET r1 == Parse(p1, stream, w)
    IN IF ~r1.ok THEN r1
       ELSE LET r2 == Parse(p2, r1.stream, r1.w)
            IN IF ~r2.ok THEN r2 ELSE StreamOk(r2.stream, r1.value, r2.w)

\* the closure given to map_err without the clear of the messages
RuleMapErrNoClear(r, rule) ==
    IF r.ok THEN r
    ELSE [r EXCEPT !.error = [stream |-> r.error.stream,
                              messages |-> r.error.messages \cup {ExpRule(rule)}]]

\* Parser::rule, the closure given to map_err
RuleMapErr(r, rule) ==
    IF r.ok THEN r
    ELSE [r EXCEPT !.error = [stream |-> r.error.stream, messages |-> {ExpRule(rule)}]]

\* Parser::rule
ParseRule(p, rule, stream, w) ==
    LET s1 == SetStarted(w.catcher, FALSE)
        result == RuleMapErr(Parse(p, stream, [w EXCEPT !.catcher = s1.catcher]), rule)
        s2 == SetStarted(result.w.catcher, s1.old)
    IN [result EXCEPT !.w = [result.w EXCEPT !.catcher = s2.catcher]]

\* Parser::parse of unit p; the call is appended to the log of calls
Parse(p, stream, w) ==
    LET g == Gram[p]
        v == [w EXCEPT !.calls = Append(w.calls, <<p, stream>>)]
    IN CASE g.op = "char" -> ParseChar(g.cs[1], stream, v)
         [] g.op = "str" -> ParseStr(g.cs, stream, v)
         [] g.op = "rangei" -> ParseRangeInclusive(g.cs[1], g.cs[2], stream, v)
         [] g.op = "one_of" -> ParseOneOf(g.cs, stream, v)
         [] g.op = "any" -> ParseAny(stream, v)
         [] g.op = "or" -> ParseOr(g.a, g.b, stream, v)
         [] g.op = "seq" -> ParseSeq(g.a, g.b, stream, v)
         [] g.op = "and_not" -> ParseAndNot(g.a, g.b, stream, v)
         [] g.op = "prepend" -> ParsePrepend(g.a, g.b, stream, v)
         [] g.op = "opt" -> ParseOpt(g.a, stream, v)
         [] g.op = "many" -> ParseMany(g.a, stream, v)
         [] g.op = "map_unit" -> ParseMapUnit(g.a, stream, v)
         [] g.op = "as_string" -> ParseAsString(g.a, stream, v)
         [] g.op = "ignore_prev" -> ParseIgnorePrev(g.a, g.b, stream, v)
         [] g.op = "ignore_this" -> ParseIgnoreThis(g.a, g.b, stream, v)
         [] g.op = "rule" -> ParseRule(g.a, g.name, stream, v)

\* ---- the state machine ---------------------------------------------------
\* Stream::new creates the context of one source text, and the context lives
\* for one top-level parse, as in the tests of common.rs: the client may
\* register errors with Stream::catch and open closure-bodied rules (pc is
\* "idle"), then makes its parse call on a cursor over the text (pc is
\* "many" inside the loop of many), and the call returns (pc is "done").
Cursors == 0..Len(text)

NoRes == [ok |-> FALSE, stream |-> 0, value |-> <<>>, error |-> NoError, calls |-> <<>>]
NoLoop == [p |-> 0, stream |-> 0, result |-> <<>>, calls |-> <<>>, turn |-> 0]
NoCall == [op |-> "new", a |-> 0, b |-> 0, lit |-> <<>>, name |-> "", stream |-> 0,
           error |-> NoError, other |-> NoError, pre |-> CatcherNew(<<>>)]

CallOf(op, a, b, stream) ==
    [NoCall EXCEPT !.op = op, !.a = a, !.b = b, !.stream = stream, !.pre = catcher]

World == [catcher |-> catcher, calls |-> <<>>]

\* the result r of a call is handed back and the catcher is as the call left it
Return(r) ==
    /\ res' = [ok |-> r.ok, stream |-> r.stream, value |-> r.value,
               error |-> r.error, calls |-> r.w.calls]
    /\ catcher' = r.w.catcher
    /\ pc' = "done"

Init ==
    /\ text \in Texts
    /\ catcher = CatcherNew(text)
    /\ saved = <<>>
    /\ pc = "idle"
    /\ loop = NoLoop
    /\ call = NoCall
    /\ res = NoRes

\* the messages and errors handed to Stream::catch and Error::or
ErrMsgs == {UnexpectedEOF, ExpChar(97)}
Errors == [stream : Cursors, messages : SUBSET ErrMsgs]

\* stream.catch(error)
CatchCall(stream, error) ==
    /\ pc = "idle"
    /\ call' = [CallOf("catch", 0, 0, stream) EXCEPT !.error = error]
    /\ LET c == Catch(stream, error, World)
       IN /\ res' = [NoRes EXCEPT !.error = c.error]
          /\ catcher' = c.w.catcher
    /\ UNCHANGED <<text, saved, pc, loop>>

\* e1.or(e2)
ErrorOrCall(e1, e2) ==
    /\ pc = "idle"
    /\ call' = [CallOf("error_or", 0, 0, 0) EXCEPT !.error = e1, !.other = e2]
    /\ res' = [NoRes EXCEPT !.error = ErrorOr(e1, e2)]
    /\ pc' = "done"
    /\ UNCHANGED <<text, catcher, saved, loop>>

\* p.parse(stream) for a unit p of the table
UnitCall(p, stream) ==
    /\ pc = "idle"
    /\ call' = CallOf("unit", p, 0, stream)
    /\ Return(Parse(p, stream, World))
    /\ UNCHANGED <<text, saved, loop>>

\* lit.parse(stream) for a string literal
StrCall(lit, stream) ==
    /\ pc = "idle"
    /\ call' = [CallOf("str", 0, 0, stream) EXCEPT !.lit = lit]
    /\ Return(ParseStr(lit, stream, World))
    /\ UNCHANGED <<text, saved, loop>>

\* a.or(b).parse(stream)
OrCall(a, b, stream) ==
    /\ pc = "idle"
    /\ call' = CallOf("or", a, b, stream)
    /\ Return(ParseOr(a, b, stream, World))
    /\ UNCHANGED <<text, saved, loop>>

\* a.and_not(b).parse(stream)
AndNotCall(a, b, stream) ==
    /\ pc = "idle"
    /\ call' = CallOf("and_not", a, b, stream)
    /\ Return(ParseAndNot(a, b, stream, World))
    /\ UNCHANGED <<text, saved, loop>>

\* a.opt().parse(stream)
OptCall(a, stream) ==
    /\ pc = "idle"
    /\ call' = CallOf("opt", a, 0, stream)
    /\ Return(ParseOpt(a, stream, World))
    /\ UNCHANGED <<text, saved, loop>>

\* a.rule(name).parse(stream)
RuleNames == {"X"}

RuleCall(a, name, stream) ==
    /\ pc = "idle"
    /\ call' = [CallOf("rule", a, 0, stream) EXCEPT !.name = name]
    /\ Return(ParseRule(a, name, stream, World))
    /\ UNCHANGED <<text, saved, loop>>

\* f.rule(name) where the unit f is a closure: the rule saves the flag and
\* suppresses registration (parser.rs:192-193), and the closure's body runs
\* as the calls that follow, up to RuleExit
RuleEnter(name) ==
    /\ pc = "idle"
    /\ Len(saved) < MaxDepth
    /\ LET s1 == SetStarted(catcher, FALSE)
       IN /\ catcher' = s1.catcher
          /\ saved' = Append(saved, [is_started |-> s1.old, rule |-> name, entry |-> catcher])
    /\ call' = [CallOf("rule_enter", 0, 0, 0) EXCEPT !.name = name]
    /\ res' = NoRes
    /\ UNCHANGED <<text, pc, loop>>

\* the closure returns the result of its last call: the rule collapses a
\* failure and restores the flag (parser.rs:194-200)
RuleExit ==
    /\ pc = "done"
    /\ Len(saved) > 0
    /\ call.op # "error_or"
    /\ LET top == saved[Len(saved)]
           result == RuleMapErr([res EXCEPT !.calls = <<>>], top.rule)
       IN /\ res' = result
          /\ catcher' = SetStarted(catcher, top.is_started).catcher
          /\ call' = [CallOf("rule_exit", 0, 0, 0) EXCEPT !.name = top.rule, !.pre = top.entry]
    /\ saved' = SubSeq(saved, 1, Len(saved) - 1)
    /\ UNCHANGED <<text, pc, loop>>

\* a.many().parse(stream): entry of the closure (parser.rs:80-81)
ManyStart(a, stream) ==
    /\ pc = "idle"
    /\ pc' = "many"
    /\ loop' = [p |-> a, stream |-> stream, result |-> <<>>, calls |-> <<>>, turn |-> 0]
    /\ call' = CallOf("many", a, 0, stream)
    /\ res' = NoRes
    /\ UNCHANGED <<text, catcher, saved>>

\* one turn of the loop of many (parser.rs:82-93), and after the break the
\* return (parser.rs:94).  The Vec of values grows without bound: its first
\* MaxIter values are kept, and of the number of turns its parity.
ManyStep ==
    /\ pc = "many"
    /\ \E it \in {ManyIter(loop.p, loop.stream, loop.result,
                            [catcher |-> catcher, calls |-> loop.calls])} :
          IF it.brk
          THEN /\ res' = [ok |-> TRUE, stream |-> it.stream, value |-> it.result,
                          error |-> NoError, calls |-> it.w.calls]
               /\ catcher' = it.w.catcher
               /\ pc' = "done"
               /\ loop' = NoLoop
          ELSE /\ loop' = IF Len(loop.result) < MaxIter
                          THEN [loop EXCEPT !.stream = it.stream, !.result = it.result,
                                            !.calls = it.w.calls,
                                            !.turn = (loop.turn + 1) % 2]
                          ELSE [loop EXCEPT !.stream = it.stream,
                                            !.turn = (loop.turn + 1) % 2]
               /\ catcher' = it.w.catcher
               /\ UNCHANGED <<pc, res>>
    /\ UNCHANGED <<text, saved, call>>

Catches == \E s \in Cursors, e \in Errors : CatchCall(s, e)
ErrorOrs == \E e1 \in Errors, e2 \in Errors : ErrorOrCall(e1, e2)
UnitCalls == \E p \in 1..NumGram, s \in Cursors : UnitCall(p, s)
StrCalls == \E lit \in Literals, s \in Cursors : StrCall(lit, s)
OrCalls == \E a \in Units, b \in Units, s \in Cursors : OrCall(a, b, s)
AndNotCalls == \E a \in Units, b \in Units, s \in Cursors : AndNotCall(a, b, s)
OptCalls == \E a \in Units, s \in Cursors : OptCall(a, s)
RuleCalls == \E a \in Units, name \in RuleNames, s \in Cursors : RuleCall(a, name, s)
RuleEnters == \E name \in RuleNames : RuleEnter(name)
ManyStarts == \E a \in Units, s \in Cursors : ManyStart(a, s)

Next ==
    \/ Catches
    \/ ErrorOrs
    \/ UnitCalls
    \/ StrCalls
    \/ OrCalls
    \/ AndNotCalls
    \/ OptCalls
    \/ RuleCalls
    \/ RuleEnters
    \/ RuleExit
    \/ ManyStarts
    \/ ManyStep

Spec == Init /\ [][Next]_vars

\* ---- specifications of the single operations ----------------------------
\* Stream::catch, on the catchers that earlier registrations and open rules leave
NextCatch == Catches \/ RuleEnters
SpecCatch == Init /\ [][NextCatch]_vars

\* Error::or as a function of its two arguments
NextErrorOr == ErrorOrs
SpecErrorOr == Init /\ [][NextErrorOr]_vars

\* Parser::or, Parser::and_not, Parser::rule and the literal string, each on
\* the catchers that registrations and open rules leave
NextOr == Catches \/ RuleEnters \/ OrCalls \/ RuleExit
SpecOr == Init /\ [][NextOr]_vars

NextAndNot == Catches \/ RuleEnters \/ AndNotCalls \/ RuleExit
SpecAndNot == Init /\ [][NextAndNot]_vars

NextRule == Catches \/ RuleEnters \/ RuleCalls \/ UnitCalls \/ RuleExit
SpecRule == Init /\ [][NextRule]_vars

NextStr == Catches \/ RuleEnters \/ StrCalls \/ RuleExit
SpecStr == Init /\ [][NextStr]_vars

\* every parse call, on a fresh context
NextCalls ==
    \/ UnitCalls
    \/ StrCalls
    \/ OrCalls
    \/ AndNotCalls
    \/ OptCalls
    \/ RuleCalls
    \/ ManyStarts
    \/ ManyStep
SpecCalls == Init /\ [][NextCalls]_vars

\* Parser::many on 'a', EOF and 'a'.opt(): a loop that has been entered keeps
\* taking its turns, the thread that runs it being scheduled
LoopUnits == {1, 2, 3}
LoopStarts == \E a \in LoopUnits, s \in Cursors : ManyStart(a, s)
NextMany == LoopStarts \/ ManyStep
SpecMany == Init /\ [][NextMany]_vars /\ WF_vars(ManyStep)

\* the idents grammar of tests::parse_idents on a whole text
IdChars == {0, 32, 49, 95, 97}
IdTexts == UNION {[1..n -> IdChars] : n \in 0..MaxIdLen}

InitIdents ==
    /\ text \in IdTexts
    /\ catcher = CatcherNew(text)
    /\ saved = <<>>
    /\ pc = "idle"
    /\ loop = NoLoop
    /\ call = NoCall
    /\ res = NoRes

IdentsCall == UnitCall(Idents, Len(text))
SpecIdents == InitIdents /\ [][IdentsCall]_vars

\* the world the last call started in
PreWorld == [catcher |-> call.pre, calls |-> <<>>]

ParseOps == {"unit", "str", "or", "and_not", "opt", "rule", "many"}

\* ---- C1 -------------------------------------------------------------------
PairOf(c) == [stream |-> c.chars, messages |-> c.messages]

\* C1: Stream::catch under suppression returns the incoming error unchanged
\* and leaves the catcher's position and messages unchanged; otherwise the
\* error it returns and the pair it leaves in the catcher are the same value:
\* of the incoming error and the pair recorded before, the one with the
\* smaller residual length, or at equal lengths the position with the union
\* of both message sets.
C1_CatchMerges ==
    call.op = "catch" =>
        LET old == PairOf(call.pre)
            e == call.error
        IN IF ~call.pre.is_started
           THEN res.error = e /\ catcher = call.pre
           ELSE /\ res.error = PairOf(catcher)
                /\ catcher.is_started
                /\ e.stream < old.stream => res.error = e
                /\ e.stream > old.stream => res.error = old
                /\ e.stream = old.stream =>
                       res.error = [stream |-> e.stream,
                                    messages |-> e.messages \cup old.messages]

\* a registration that meets a recorded failure at the same position with
\* other messages
C1_Witness ==
    /\ call.op = "catch"
    /\ call.pre.is_started
    /\ call.error.stream = call.pre.chars
    /\ call.error.messages # {}
    /\ call.pre.messages # {}
    /\ call.error.messages # call.pre.messages

\* ---- C3 -------------------------------------------------------------------
\* C3: Error::or keeps the error with the smaller residual length, messages
\* unchanged, whichever argument it is; at equal residual lengths both
\* orders give that length and the union of the two message sets.
C3_ErrorOrPositionPrecedent ==
    call.op = "error_or" =>
        LET e1 == call.error
            e2 == call.other
            r12 == res.error
            r21 == ErrorOr(e2, e1)
            both == [stream |-> e1.stream, messages |-> e1.messages \cup e2.messages]
        IN /\ e1.stream < e2.stream => r12 = e1 /\ r21 = e1
           /\ e2.stream < e1.stream => r12 = e2 /\ r21 = e2
           /\ e1.stream = e2.stream => r12 = both /\ r21 = both

\* two errors at one position with different messages have been merged
C3_Witness ==
    /\ call.op = "error_or"
    /\ call.error.stream = call.other.stream
    /\ call.error.messages # {}
    /\ call.other.messages # {}
    /\ call.error.messages # call.other.messages
    /\ res.error.messages = call.error.messages \cup call.other.messages

\* ---- C2 -------------------------------------------------------------------
\* C2: a failure returned into a context where suppression is inactive is
\* held by the catcher: the catcher's residual length is at most the
\* failure's, and at equal lengths its messages contain the failure's.
C2_CatcherHoldsDeepest ==
    (pc = "done" /\ call.op \in ParseOps \cup {"rule_exit"} /\ ~res.ok /\ catcher.is_started) =>
        /\ catcher.chars <= res.error.stream
        /\ catcher.chars = res.error.stream => res.error.messages \subseteq catcher.messages

\* ---- C4 -------------------------------------------------------------------
\* C4: a.or(b) on cursor s: if a succeeds the outcome is a's and the calls
\* made are exactly a's (b is not run); if a fails, b is run next on exactly
\* s and a success of b is the outcome; the choice fails iff both fail on s.
C4_OrLeftBiased ==
    call.op = "or" =>
        LET ra == Parse(call.a, call.stream, PreWorld)
            rb == Parse(call.b, call.stream, PreWorld)
        IN /\ res.ok <=> (ra.ok \/ rb.ok)
           /\ ra.ok => /\ res.stream = ra.stream
                       /\ res.value = ra.value
                       /\ res.calls = ra.w.calls
           /\ ~ra.ok => /\ Len(res.calls) > Len(ra.w.calls)
                        /\ SubSeq(res.calls, 1, Len(ra.w.calls)) = ra.w.calls
                        /\ res.calls[Len(ra.w.calls) + 1] = <<call.b, call.stream>>
                        /\ Len(res.calls) = Len(ra.w.calls) + Len(rb.w.calls)
           /\ (~ra.ok /\ rb.ok) => /\ res.stream = rb.stream
                                   /\ res.value = rb.value

\* a has failed and b has succeeded from the same cursor, consuming input
C4_Witness ==
    /\ call.op = "or"
    /\ ~Parse(call.a, call.stream, PreWorld).ok
    /\ res.ok
    /\ res.stream < call.stream

\* ---- C6 -------------------------------------------------------------------
\* C6: a failure of a.rule(X) carries exactly the one message
\* Expected::Rule(X).
C6_RuleSingleMessage ==
    /\ (pc = "done" /\ call.op \in {"rule", "rule_exit"} /\ ~res.ok) =>
           res.error.messages = {ExpRule(call.name)}
    /\ (call.op = "unit" /\ Gram[call.a].op = "rule" /\ ~res.ok) =>
           res.error.messages = {ExpRule(Gram[call.a].name)}

\* a rule has failed over a unit whose own failure carries two messages,
\* with messages recorded in the catcher before
C6_Witness ==
    /\ call.op = "rule"
    /\ ~res.ok
    /\ call.pre.messages # {}
    /\ Cardinality(Parse(call.a, call.stream,
           [catcher |-> SetStarted(call.pre, FALSE).catcher, calls |-> <<>>]).error.messages) = 2

\* ---- C9 -------------------------------------------------------------------
\* C9 as stated: a.and_not(b) on s succeeds with a's cursor and value if a
\* succeeds on s and b fails on s, and in every other case fails with the
\* one message "unexpected <b>" positioned at s.
C9_AndNotAsStated ==
    call.op = "and_not" =>
        LET ra == Parse(call.a, call.stream, PreWorld)
            rb == Parse(call.b, call.stream, PreWorld)
        IN IF ra.ok /\ ~rb.ok
           THEN res.ok /\ res.stream = ra.stream /\ res.value = ra.value
           ELSE /\ ~res.ok
                /\ res.error = ErrorNew(call.stream, TextUnexpected(call.b))

\* C9: a.and_not(b) on s succeeds, with a's cursor and value, iff a succeeds
\* on s and b fails on s.  If a fails, the call fails with a's own failure
\* and b is not run.  If both succeed on s, it fails with what registering
\* the message "unexpected <b>" at s returns: under suppression that error
\* at s; otherwise the catcher's record, which is at s or deeper and at s
\* carries the message.
C9_AndNot ==
    call.op = "and_not" =>
        LET ra == Parse(call.a, call.stream, PreWorld)
            rb == Parse(call.b, call.stream, PreWorld)
            msg == TextUnexpected(call.b)
        IN /\ res.ok <=> (ra.ok /\ ~rb.ok)
           /\ res.ok => res.stream = ra.stream /\ res.value = ra.value
           /\ ~ra.ok => res.error = ra.error /\ res.calls = ra.w.calls
           /\ (ra.ok /\ rb.ok) =>
                  IF call.pre.is_started
                  THEN /\ res.error = PairOf(catcher)
                       /\ res.error.stream <= call.stream
                       /\ res.error.stream = call.stream => msg \in res.error.messages
                  ELSE res.error = ErrorNew(call.stream, msg)

\* a has failed, and the call has failed with a's failure
C9_Witness ==
    /\ call.op = "and_not"
    /\ ~Parse(call.a, call.stream, PreWorld).ok
    /\ ~res.ok
    /\ TextUnexpected(call.b) \notin res.error.messages

\* ---- C5 -------------------------------------------------------------------
\* C5: a.many() always returns, with success: a loop that has been entered
\* and keeps being run is left, also over a unit that succeeds without
\* consuming input.
C5_ManyAlwaysReturns == [](pc = "many" => <>(pc = "done" /\ res.ok))

\* ---- C7 -------------------------------------------------------------------
\* C7 as stated: a literal that matches leaves the residual length less the
\* literal's length; one that does not fails with an error at the start
\* cursor.
C7_StrAsStated ==
    call.op = "str" =>
        IF res.ok THEN res.stream = call.stream - Len(call.lit)
        ELSE res.error.stream = call.stream

\* the character the i-th advance from cursor s yields
Advanced(s, i) == IF i <= s THEN text[Len(text) - s + i] ELSE EOF

\* C7: a literal matches iff each of its characters equals the character the
\* cursor yields, '\0' past the end of the text.  A match consumes the
\* literal's length, save the '\0's matched past the end, which consume
\* nothing, and leaves the catcher alone.  A mismatch fails with what
\* registering Expected::Str at the start cursor returns: that error at the
\* start cursor, merged with the messages recorded there, unless the
\* catcher, unsuppressed, holds a deeper failure, which is then returned.
C7_StrAllOrNothing ==
    call.op = "str" =>
        LET lit == call.lit
            s == call.stream
            own == ExpStr(lit)
        IN /\ res.ok <=> \A i \in 1..Len(lit) : lit[i] = Advanced(s, i)
           /\ res.ok => /\ res.stream = (IF Len(lit) <= s THEN s - Len(lit) ELSE 0)
                        /\ res.value = lit
                        /\ catcher = call.pre
           /\ ~res.ok =>
                  IF call.pre.is_started /\ call.pre.chars < s
                  THEN res.error = PairOf(call.pre)
                  ELSE IF call.pre.is_started /\ call.pre.chars = s
                  THEN res.error = [stream |-> s, messages |-> call.pre.messages \cup {own}]
                  ELSE res.error = ErrorNew(s, own)

\* a literal longer than the rest of the text has matched
C7_Witness ==
    /\ call.op = "str"
    /\ res.ok
    /\ call.stream > 0
    /\ Len(call.lit) > call.stream

\* ---- C8 -------------------------------------------------------------------
\* the last call made again, on a context whose catcher is k
RunCall(c, k) ==
    LET w == [catcher |-> k, calls |-> <<>>]
    IN CASE c.op = "unit" -> Parse(c.a, c.stream, w)
         [] c.op = "str" -> ParseStr(c.lit, c.stream, w)
         [] c.op = "or" -> ParseOr(c.a, c.b, c.stream, w)
         [] c.op = "and_not" -> ParseAndNot(c.a, c.b, c.stream, w)
         [] c.op = "opt" -> ParseOpt(c.a, c.stream, w)
         [] c.op = "rule" -> ParseRule(c.a, c.name, c.stream, w)
         [] c.op = "many" -> ParseMany(c.a, c.stream, w)

Outcome(r) == IF r.ok THEN <<TRUE, r.stream, r.value>> ELSE <<FALSE>>

AltCatchers == [chars : Cursors, messages : SUBSET ErrMsgs, is_started : BOOLEAN]

\* C8: the call made on any other catcher content and suppression flag
\* succeeds or fails alike, and on success gives the same cursor and value.
C8_CatcherNeverInfluences ==
    (pc = "done" /\ call.op \in ParseOps) =>
        \A k \in AltCatchers : Outcome(RunCall(call, k)) = Outcome(res)

\* a failed call whose error does depend on the catcher
C8_Witness ==
    /\ pc = "done"
    /\ call.op \in ParseOps
    /\ ~res.ok
    /\ \E k \in AltCatchers : RunCall(call, k).error # res.error

\* ---- C10 ------------------------------------------------------------------
\* the claim's language: units of whitespace and an identifier, to the end
IsWs(c) == c \in {32, 9, 10, 13}
IsLetter(c) == (97 <= c /\ c <= 122) \/ (65 <= c /\ c <= 90) \/ c = 95
IsLetterOrDigit(c) == IsLetter(c) \/ (48 <= c /\ c <= 57)

RECURSIVE SkipWs(_, _)
SkipWs(t, i) == IF i <= Len(t) /\ IsWs(t[i]) THEN SkipWs(t, i + 1) ELSE i

RECURSIVE SkipIdent(_, _)
SkipIdent(t, i) == IF i <= Len(t) /\ IsLetterOrDigit(t[i]) THEN SkipIdent(t, i + 1) ELSE i

RECURSIVE UnitsFrom(_, _, _)
UnitsFrom(t, i, acc) ==
    IF i > Len(t) THEN [ok |-> TRUE, value |-> acc]
    ELSE LET j == SkipWs(t, i)
         IN IF j > Len(t) \/ ~IsLetter(t[j]) THEN [ok |-> FALSE, value |-> <<>>]
            ELSE LET k == SkipIdent(t, j)
                 IN UnitsFrom(t, k, Append(acc, SubSeq(t, j, k - 1)))

\* C10: the idents grammar succeeds on a text iff the whole text is units
\* of whitespace and an identifier, and its value is their identifiers.
C10_IdentsLanguage ==
    (pc = "done" /\ call.op = "unit" /\ call.a = Idents /\ call.stream = Len(text)) =>
        LET u == UnitsFrom(text, 1, <<>>)
        IN /\ res.ok <=> u.ok
           /\ res.ok => res.value = u.value

\* ---- C11 ------------------------------------------------------------------
\* C11: a.rule(X) saves and restores the suppression flag exactly, also
\* under nesting.  While a rule is open registration is suppressed and the
\* catcher's position and messages are those of its entry, for each of the
\* open rules; when a rule returns, with success or failure, the catcher
\* (flag, position and messages) is what it was when the rule was entered.
C11_RuleSavesAndRestores ==
    /\ \A i \in 1..Len(saved) :
           /\ ~catcher.is_started
           /\ PairOf(catcher) = PairOf(saved[i].entry)
    /\ (pc = "done" /\ call.op = "rule") => catcher = call.pre
    /\ (pc = "done" /\ call.op = "unit" /\ Gram[call.a].op = "rule") => catcher = call.pre
    /\ call.op = "rule_exit" => catcher = call.pre

\* three rules deep: inside an open rule, entered with registration on and
\* messages recorded, a rule over a rule has failed
C11_Witness ==
    /\ Len(saved) = 1
    /\ saved[1].entry.is_started
    /\ saved[1].entry.messages # {}
    /\ pc = "done"
    /\ call.op = "rule"
    /\ Gram[call.a].op = "rule"
    /\ ~res.ok
====
